---- MODULE Spec2Model ----
(***************************************************************************)
(* Collaborative canvas: the server-authoritative operation log, its       *)
(* group-based undo/redo engine and the unanimous clear-all vote           *)
(* (src/server/server.js), driven by the pointer handlers of the clients   *)
(* (src/client/canvas.js, src/client/main.js).                             *)
(*                                                                         *)
(* Node runs every socket handler to completion, so one action is one      *)
(* handler.  A client emit and the server handler it triggers are one      *)
(* step: the server sees each socket's messages in FIFO order.             *)
(*                                                                         *)
(* Spec, SpecSolo and SpecVote are the same system explored within         *)
(* different bounds (bnd): two clients with a log of five operations, one  *)
(* client with a log of four, two clients with a log of two.  SpecQuorum   *)
(* is the vote alone among three clients.                                  *)
(*                                                                         *)
(* SpecClient, SpecReplay and SpecPair add the pages of the clients: what  *)
(* the server emits travels to each followed page in order and is handled  *)
(* there later (Deliver), in between the page's own pointer events.        *)
(***************************************************************************)
EXTENDS Integers, Sequences, FiniteSets

\* ---- bounds of the model ----
\* Spec: two clients drawing, undoing and voting
\* socket ids the room hands out over its lifetime (socket.id is fresh per connection)
MaxSockets == 2
\* operations the log may hold
MaxOps == 5
\* group ids the clients mint (cryptoRandomId is fresh per pointerdown)
MaxGroups == 2
\* SpecSolo: the log and the undo/redo engine under one client
SoloSockets == 1
SoloOps == 4
SoloGroups == 2
\* SpecVote: the vote under two clients and a short log
VoteSockets == 2
VoteOps == 2
VoteGroups == 1
\* SpecQuorum: the vote among three clients who do not draw
QuorumSockets == 3
QuorumOps == 1

\* SpecClient: the pages of the clients, with the events in flight to them
ClientSockets == 1
ClientOps == 4
ClientGroups == 2
\* events a page may have received and not yet handled
ClientInbox == 3

\* SpecReplay: one page replaying a short log
ReplaySockets == 1
ReplayOps == 3
ReplayGroups == 1
ReplayInbox == 1
\* SpecPair: two clients drawing, seen from the page of the first
PairSockets == 2
PairOps == 4
PairGroups == 3
PairInbox == 2

\* ---- program constants ----
\* COLORS.length
NumColors == 10

Null == 0

\* every socket id a run can hand out, whichever bounds it runs within
SocketIds == 1..(MaxSockets + SoloSockets + VoteSockets + QuorumSockets + ClientSockets
                   + PairSockets + ReplaySockets)

VARIABLES
  seq,        \* let seq
  ops,        \* const ops: the log, in append order
  groups,     \* const groups: Map groupId -> {kind, by, seqs, tombstone}
  undoStack,  \* const undoStack
  redoStack,  \* const redoStack
  users,      \* const users: Map socket.id -> colour index
  vote,       \* const vote = {inProgress, yes, totalAtStart}
  client,     \* per connected socket: the pointer handlers' {drawing, currentGroup}
  nextSock,   \* socket ids handed out so far
  nextGid,    \* group ids minted so far
  emitted,    \* what the last handler emitted, in order
  last,       \* the last handler that ran and what its core call returned
  page,       \* per followed client (socket id): the page's opLog, lastSeg, currBrush, surface and unhandled events
  roster,     \* history: the users that were connected when the pending vote was requested
  bnd         \* the bounds this run explores within: [sockets, ops, groups]; the
              \* pages of the first bnd.pages clients are followed, each with at
              \* most bnd.inbox unhandled events

vars == <<seq, ops, groups, undoStack, redoStack, users, vote, client,
          nextSock, nextGid, emitted, last, page, roster, bnd>>

\* ---- kinds ----
StartKinds == {"stroke:start", "erase:start"}
PointKinds == {"stroke:point", "erase:point"}
EndKinds == {"stroke:end", "erase:end"}
ClearKind == "system:clear_all"

\* kind.endsWith(':start') and friends, over the closed kind vocabulary
IsStart(kind) == kind \in StartKinds
IsPoint(kind) == kind \in PointKinds
IsEnd(kind) == kind \in EndKinds

Pop(s) == SubSeq(s, 1, Len(s) - 1)

\* The room's mutable log state as one value, so that the server functions
\* are operators from state to state.
Room == [seq |-> seq, ops |-> ops, groups |-> groups,
         undoStack |-> undoStack, redoStack |-> redoStack]

\* groups.set(gid, g)
MapSet(m, k, v) == [x \in (DOMAIN m) \cup {k} |-> IF x = k THEN v ELSE m[x]]

\* ---- server.js: addOp ----
\* Mutant: the system:clear_all branch forgets to empty the two stacks.
addOp_keepStacks(st, kind, data) ==
  LET op == [seq |-> st.seq + 1, id |-> st.seq + 1, kind |-> kind,
             data |-> data, tombstone |-> FALSE]
      s1 == [st EXCEPT !.seq = st.seq + 1, !.ops = Append(st.ops, op)]
      gid == data.groupId
      s2 == IF IsStart(kind)
              THEN [s1 EXCEPT !.groups = MapSet(s1.groups, gid,
                       [kind |-> kind, by |-> data.userId,
                        seqs |-> <<op.seq>>, tombstone |-> FALSE])]
            ELSE IF IsPoint(kind)
              THEN IF gid \in DOMAIN s1.groups
                     THEN [s1 EXCEPT !.groups[gid].seqs = Append(@, op.seq)]
                     ELSE s1
            ELSE IF IsEnd(kind)
              THEN IF gid \in DOMAIN s1.groups
                     THEN [s1 EXCEPT !.groups[gid].seqs = Append(@, op.seq),
                                     !.undoStack = Append(@, gid),
                                     !.redoStack = << >>]
                     ELSE s1
            ELSE s1
  IN [st |-> s2, op |-> op]

\* Mutant: finishing a group leaves the redo stack as it was.
addOp_keepRedo(st, kind, data) ==
  LET op == [seq |-> st.seq + 1, id |-> st.seq + 1, kind |-> kind,
             data |-> data, tombstone |-> FALSE]
      s1 == [st EXCEPT !.seq = st.seq + 1, !.ops = Append(st.ops, op)]
      gid == data.groupId
      s2 == IF IsStart(kind)
              THEN [s1 EXCEPT !.groups = MapSet(s1.groups, gid,
                       [kind |-> kind, by |-> data.userId,
                        seqs |-> <<op.seq>>, tombstone |-> FALSE])]
            ELSE IF IsPoint(kind)
              THEN IF gid \in DOMAIN s1.groups
                     THEN [s1 EXCEPT !.groups[gid].seqs = Append(@, op.seq)]
                     ELSE s1
            ELSE IF IsEnd(kind)
              THEN IF gid \in DOMAIN s1.groups
                     THEN [s1 EXCEPT !.groups[gid].seqs = Append(@, op.seq),
                                     !.undoStack = Append(@, gid)]
                     ELSE s1
            ELSE IF kind = ClearKind
              THEN [s1 EXCEPT !.undoStack = << >>, !.redoStack = << >>]
            ELSE s1
  IN [st |-> s2, op |-> op]

\* Mutant: a group is pushed on the undo stack when it starts as well.
addOp_pushOnStart(st, kind, data) ==
  LET op == [seq |-> st.seq + 1, id |-> st.seq + 1, kind |-> kind,
             data |-> data, tombstone |-> FALSE]
      s1 == [st EXCEPT !.seq = st.seq + 1, !.ops = Append(st.ops, op)]
      gid == data.groupId
      s2 == IF IsStart(kind)
              THEN [s1 EXCEPT !.groups = MapSet(s1.groups, gid,
                       [kind |-> kind, by |-> data.userId,
                        seqs |-> <<op.seq>>, tombstone |-> FALSE]),
                              !.undoStack = Append(@, gid)]
            ELSE IF IsPoint(kind)
              THEN IF gid \in DOMAIN s1.groups
                     THEN [s1 EXCEPT !.groups[gid].seqs = Append(@, op.seq)]
                     ELSE s1
            ELSE IF IsEnd(kind)
              THEN IF gid \in DOMAIN s1.groups
                     THEN [s1 EXCEPT !.groups[gid].seqs = Append(@, op.seq),
                                     !.undoStack = Append(@, gid),
                                     !.redoStack = << >>]
                     ELSE s1
            ELSE IF kind = ClearKind
              THEN [s1 EXCEPT !.undoStack = << >>, !.redoStack = << >>]
            ELSE s1
  IN [st |-> s2, op |-> op]

\* Mutant: the counter is read but not advanced.
addOp_noIncrement(st, kind, data) ==
  LET op == [seq |-> st.seq, id |-> st.seq, kind |-> kind,
             data |-> data, tombstone |-> FALSE]
      s1 == [st EXCEPT !.ops = Append(st.ops, op)]
      gid == data.groupId
      s2 == IF IsStart(kind)
              THEN [s1 EXCEPT !.groups = MapSet(s1.groups, gid,
                       [kind |-> kind, by |-> data.userId,
                        seqs |-> <<op.seq>>, tombstone |-> FALSE])]
            ELSE IF IsPoint(kind)
              THEN IF gid \in DOMAIN s1.groups
                     THEN [s1 EXCEPT !.groups[gid].seqs = Append(@, op.seq)]
                     ELSE s1
            ELSE IF IsEnd(kind)
              THEN IF gid \in DOMAIN s1.groups
                     THEN [s1 EXCEPT !.groups[gid].seqs = Append(@, op.seq),
                                     !.undoStack = Append(@, gid),
                                     !.redoStack = << >>]
                     ELSE s1
            ELSE IF kind = ClearKind
              THEN [s1 EXCEPT !.undoStack = << >>, !.redoStack = << >>]
            ELSE s1
  IN [st |-> s2, op |-> op]

\* op = {seq: ++seq, id: randomUUID(), kind, data, tombstone: false}; the id is
\* fresh for every op, which the model renders by numbering ids with the counter.
addOp(st, kind, data) ==
  LET op == [seq |-> st.seq + 1, id |-> st.seq + 1, kind |-> kind,
             data |-> data, tombstone |-> FALSE]
      s1 == [st EXCEPT !.seq = st.seq + 1, !.ops = Append(st.ops, op)]
      gid == data.groupId
      s2 == IF IsStart(kind)
              THEN [s1 EXCEPT !.groups = MapSet(s1.groups, gid,
                       [kind |-> kind, by |-> data.userId,
                        seqs |-> <<op.seq>>, tombstone |-> FALSE])]
            ELSE IF IsPoint(kind)
              THEN IF gid \in DOMAIN s1.groups
                     THEN [s1 EXCEPT !.groups[gid].seqs = Append(@, op.seq)]
                     ELSE s1
            ELSE IF IsEnd(kind)
              THEN IF gid \in DOMAIN s1.groups
                     THEN [s1 EXCEPT !.groups[gid].seqs = Append(@, op.seq),
                                     !.undoStack = Append(@, gid),
                                     !.redoStack = << >>]
                     ELSE s1
            ELSE IF kind = ClearKind
              THEN [s1 EXCEPT !.undoStack = << >>, !.redoStack = << >>]
            ELSE s1
  IN [st |-> s2, op |-> op]

\* ---- server.js: setGroupTombstone ----
\* Seqs(g): the member sequence numbers as a set
SeqSet(s) == {s[i] : i \in DOMAIN s}

\* Mutant: only the group record is flipped, the member operations are not.
setGroupTombstone_groupOnly(st, groupId, val) ==
  IF groupId \notin DOMAIN st.groups THEN [st |-> st, ok |-> FALSE]
  ELSE [st |-> [st EXCEPT !.groups[groupId].tombstone = val], ok |-> TRUE]

setGroupTombstone(st, groupId, val) ==
  IF groupId \notin DOMAIN st.groups THEN [st |-> st, ok |-> FALSE]
  ELSE LET members == SeqSet(st.groups[groupId].seqs)
       IN [st |-> [st EXCEPT
                     !.groups[groupId].tombstone = val,
                     !.ops = [i \in DOMAIN st.ops |->
                                IF st.ops[i].seq \in members
                                  THEN [st.ops[i] EXCEPT !.tombstone = val]
                                  ELSE st.ops[i]]],
           ok |-> TRUE]

\* ---- server.js: performUndo ----
\* Mutant: the top entry is popped and given up on when it is not undoable,
\* instead of looping to the next one.
performUndo_noSkip(st) ==
  IF Len(st.undoStack) = 0 THEN [st |-> st, gid |-> Null]
  ELSE LET gid == st.undoStack[Len(st.undoStack)]
       IN IF gid \in DOMAIN st.groups /\ ~st.groups[gid].tombstone
            THEN LET s1 == setGroupTombstone(st, gid, TRUE).st
                 IN [st |-> [s1 EXCEPT !.redoStack = Append(@, gid),
                                       !.undoStack = Pop(@)],
                     gid |-> gid]
            ELSE [st |-> [st EXCEPT !.undoStack = Pop(@)], gid |-> Null]

\* Mutant: the entries skipped on the way down are kept for redo.
RECURSIVE performUndo_pushDiscarded(_)
performUndo_pushDiscarded(st) ==
  IF Len(st.undoStack) = 0 THEN [st |-> st, gid |-> Null]
  ELSE LET gid == st.undoStack[Len(st.undoStack)]
       IN IF gid \in DOMAIN st.groups /\ ~st.groups[gid].tombstone
            THEN LET s1 == setGroupTombstone(st, gid, TRUE).st
                 IN [st |-> [s1 EXCEPT !.redoStack = Append(@, gid),
                                       !.undoStack = Pop(@)],
                     gid |-> gid]
            ELSE performUndo_pushDiscarded(
                   [st EXCEPT !.undoStack = Pop(@),
                              !.redoStack = Append(@, gid)])

RECURSIVE performUndo(_)
performUndo(st) ==
  IF Len(st.undoStack) = 0 THEN [st |-> st, gid |-> Null]
  ELSE LET gid == st.undoStack[Len(st.undoStack)]
       IN IF gid \in DOMAIN st.groups /\ ~st.groups[gid].tombstone
            THEN LET s1 == setGroupTombstone(st, gid, TRUE).st
                 IN [st |-> [s1 EXCEPT !.redoStack = Append(@, gid),
                                       !.undoStack = Pop(@)],
                     gid |-> gid]
            ELSE performUndo([st EXCEPT !.undoStack = Pop(@)])

\* ---- server.js: performRedo ----
\* Mutant: the group is restored but not handed back to the undo stack.
performRedo_noPush(st) ==
  IF Len(st.redoStack) = 0 THEN [st |-> st, gid |-> Null]
  ELSE LET gid == st.redoStack[Len(st.redoStack)]
           s0 == [st EXCEPT !.redoStack = Pop(@)]
       IN IF gid \in DOMAIN s0.groups /\ s0.groups[gid].tombstone
            THEN [st |-> setGroupTombstone(s0, gid, FALSE).st, gid |-> gid]
            ELSE [st |-> [s0 EXCEPT !.redoStack = << >>], gid |-> Null]

RECURSIVE performRedo(_)
performRedo(st) ==
  IF Len(st.redoStack) = 0 THEN [st |-> st, gid |-> Null]
  ELSE LET gid == st.redoStack[Len(st.redoStack)]
           s0 == [st EXCEPT !.redoStack = Pop(@)]
       IN IF gid \in DOMAIN s0.groups /\ s0.groups[gid].tombstone
            THEN LET s1 == setGroupTombstone(s0, gid, FALSE).st
                 IN [st |-> [s1 EXCEPT !.undoStack = Append(@, gid)],
                     gid |-> gid]
            ELSE performRedo(s0)

\* ---- server.js: finalizeClear ----
\* Mutant: the marker is tombstoned with everything else.
finalizeClear_all(st) ==
  LET r == addOp(st, ClearKind, [userId |-> Null, groupId |-> Null])
      s1 == r.st
  IN [st |-> [s1 EXCEPT
                !.groups = [g \in DOMAIN s1.groups |->
                              [s1.groups[g] EXCEPT !.tombstone = TRUE]],
                !.ops = [i \in DOMAIN s1.ops |->
                           [s1.ops[i] EXCEPT !.tombstone = TRUE]]],
      sys |-> r.op]

finalizeClear(st) ==
  LET r == addOp(st, ClearKind, [userId |-> Null, groupId |-> Null])
      s1 == r.st
  IN [st |-> [s1 EXCEPT
                !.groups = [g \in DOMAIN s1.groups |->
                              [s1.groups[g] EXCEPT !.tombstone = TRUE]],
                !.ops = [i \in DOMAIN s1.ops |->
                           IF s1.ops[i].id # r.op.id
                             THEN [s1.ops[i] EXCEPT !.tombstone = TRUE]
                             ELSE s1.ops[i]]],
      sys |-> r.op]

\* ---- server.js: nextColor, as an index into COLORS ----
nextColor(i) == i % NumColors

Connected == DOMAIN users

MapDel(m, k) == [x \in (DOMAIN m) \ {k} |-> m[x]]

\* io.to(ROOM).emit(ev, arg) / socket.emit(ev, arg): to = Null is the room
Ev(ev, to, arg) == [ev |-> ev, to |-> to, arg |-> arg]

\* main.js emitFn: a kind is rewritten to erase:* only when the payload carries
\* a brush in eraser mode; only the start payload carries a brush.
emitFn(kind, hasBrush, mode) ==
  IF hasBrush /\ mode = "eraser"
    THEN (IF kind = "stroke:start" THEN "erase:start"
          ELSE IF kind = "stroke:point" THEN "erase:point"
          ELSE IF kind = "stroke:end" THEN "erase:end"
          ELSE kind)
    ELSE kind

\* main.js: the brush handed to initPointerHandlers as defaultBrush.  The
\* handlers copy it once ({ ...defaultBrush }) and nothing calls setMode, so
\* the mode the handlers emit with stays the initial one.
DefaultBrushMode == "brush"

SetRoom(st) ==
  /\ seq' = st.seq
  /\ ops' = st.ops
  /\ groups' = st.groups
  /\ undoStack' = st.undoStack
  /\ redoStack' = st.redoStack

NewClient == [drawing |-> FALSE, currentGroup |-> Null,
              prompt |-> FALSE, voted |-> FALSE]

\* ======================================================================
\* The page of one client: canvas.js createCanvasSystem and the socket
\* handlers of main.js
\* ======================================================================

\* main.js: let brush = { color: '#222222', width: 4, mode: 'brush' }.  The
\* pointer handlers copy it once, when they are wired, and nothing calls
\* setMode, so every start carries this brush.
DefaultBrush == [color |-> "#222222", width |-> 4, mode |-> DefaultBrushMode]

\* k.startsWith('erase')
IsErase(kind) == kind \in {"erase:start", "erase:point", "erase:end"}

\* the brush applyOpToContext makes up when it has none:
\* { color: '#222', width: 4, mode }
GuessBrush(kind) ==
  [color |-> "#222", width |-> 4,
   mode |-> IF IsErase(kind) THEN "eraser" ELSE "brush"]

\* pointerPos(e) = {x, y, t: Date.now()}: every pointer sample is a point of
\* its own.  Each sample is sent to the server in the step that takes it, so
\* the samples are numbered by the starts and points logged so far.
NextPoint ==
  1 + Cardinality({i \in DOMAIN ops : IsStart(ops[i].kind) \/ IsPoint(ops[i].kind)})

\* the page right after createCanvasSystem: opLog, lastSeg, currBrush, the
\* offscreen surface as the list of segments stroked on it, and the socket
\* events that have been sent to the page and not yet handled
NewPage ==
  [opLog |-> << >>, lastSeg |-> << >>, currBrush |-> << >>, octx |-> << >>,
   inbox |-> << >>]

\* ---- canvas.js: drawSegment ----
\* if (!p0 || !p1) return;  otherwise one stroked line on g
drawSegment(g, p0, p1, width, color, mode) ==
  IF p0 = Null \/ p1 = Null
    THEN g
    ELSE Append(g, [p0 |-> p0, p1 |-> p1, width |-> width, color |-> color,
                    mode |-> mode])

\* ---- canvas.js: applyOpToContext(octx, op) ----
applyOpToContext(m, op) ==
  LET d == op.data
      uid == d.userId
      k == op.kind
  IN IF uid = Null THEN m
     ELSE IF IsStart(k)
       THEN LET mode == IF IsErase(k) THEN "eraser" ELSE "brush"
                b == IF "brush" \in DOMAIN d THEN d.brush ELSE GuessBrush(k)
            IN [m EXCEPT !.lastSeg = MapSet(@, uid, d.p),
                         !.currBrush = MapSet(@, uid,
                            [color |-> b.color, width |-> b.width, mode |-> mode])]
     ELSE IF IsPoint(k)
       THEN LET p0 == IF uid \in DOMAIN m.lastSeg THEN m.lastSeg[uid] ELSE Null
                p1 == d.p
                brush == IF uid \in DOMAIN m.currBrush THEN m.currBrush[uid]
                         ELSE GuessBrush(k)
            IN [m EXCEPT !.octx = drawSegment(@, p0, p1, brush.width,
                                              brush.color, brush.mode),
                         !.lastSeg = MapSet(@, uid, p1)]
     ELSE IF IsEnd(k)
       THEN [m EXCEPT !.lastSeg = MapDel(@, uid), !.currBrush = MapDel(@, uid)]
     ELSE m

\* for (const op of opLog) if (!op.tombstone) applyOpToContext(octx, op)
RECURSIVE replayOps(_, _)
replayOps(m, log) ==
  IF log = << >> THEN m
  ELSE replayOps(IF Head(log).tombstone THEN m ELSE applyOpToContext(m, Head(log)),
                 Tail(log))

\* Mutant: the replay forgets clearRect and draws over what is there.
fullReplay_keepSurface(m) ==
  replayOps([m EXCEPT !.lastSeg = << >>, !.currBrush = << >>], m.opLog)

\* ---- canvas.js: fullReplay ----
fullReplay(m) ==
  replayOps([m EXCEPT !.octx = << >>, !.lastSeg = << >>, !.currBrush = << >>],
            m.opLog)

\* ---- canvas.js: setOpLog ----
setOpLog(m, newLog) == fullReplay([m EXCEPT !.opLog = newLog])

\* ---- canvas.js: applyOp ----
applyOp(m, op) ==
  LET m1 == [m EXCEPT !.opLog = Append(@, op)]
  IN IF op.tombstone \/ op.kind = ClearKind \/ IsEnd(op.kind)
       THEN fullReplay(m1)
       ELSE applyOpToContext(m1, op)

\* the ops the pointer handlers apply on their own page: seq -1, id 'local',
\* 'localpoint', 'localend'
LocalOp(kind, data) ==
  [seq |-> -1, id |-> -1, kind |-> kind, data |-> data, tombstone |-> FALSE]

\* ---- main.js: the socket handlers that touch the page ----
\* main.js:160 replaces cs.getOpLog by () => cs.getOpLog ? cs.getOpLog() : [],
\* a function that calls itself: from then on a call of cs.getOpLog() does not
\* return, it ends in a RangeError (stack exhausted) and takes the handler
\* that made it down with it.
getOpLogReturns == FALSE

\* for (const op of cs.getOpLog()) if (op.data?.groupId === groupId)
\*   op.tombstone = val;  cs.fullReplay()
onGroupEvent(m, groupId, val) ==
  IF ~getOpLogReturns THEN m
  ELSE fullReplay([m EXCEPT !.opLog =
         [i \in DOMAIN m.opLog |->
            IF m.opLog[i].data.groupId = groupId
              THEN [m.opLog[i] EXCEPT !.tombstone = val]
              ELSE m.opLog[i]]])

\* server:clear_all_applied: returns at once unless a vote_started was seen
\* (activeVoteId !== voteId); past that test it walks cs.getOpLog() to
\* tombstone every op and replay.  Neither path changes the page.
onClearAllApplied(m) ==
  IF ~getOpLogReturns THEN m
  ELSE fullReplay([m EXCEPT !.opLog =
         [i \in DOMAIN m.opLog |-> [m.opLog[i] EXCEPT !.tombstone = TRUE]]])

\* the handler of one event
onEvent(m, e) ==
  IF e.ev = "server:snapshot" THEN setOpLog(m, e.arg.ops)
  ELSE IF e.ev = "server:op" THEN applyOp(m, e.arg)
  ELSE IF e.ev = "server:undo_group" THEN onGroupEvent(m, e.arg, TRUE)
  ELSE IF e.ev = "server:redo_group" THEN onGroupEvent(m, e.arg, FALSE)
  ELSE IF e.ev = "server:clear_all_applied" THEN onClearAllApplied(m)
  ELSE m

\* the events whose handlers read or write the page's log or surface; the
\* others (user list, vote counter, cursors) only touch the DOM
PageEvents == {"server:snapshot", "server:op", "server:undo_group",
               "server:redo_group", "server:clear_all_applied"}

\* socket.io delivers to each page, in order, what the server emitted to it
Post(pg, evs) ==
  [c \in DOMAIN pg |->
     [pg[c] EXCEPT !.inbox =
        @ \o SelectSeq(evs, LAMBDA e : e.to \in {Null, c} /\ e.ev \in PageEvents)]]

\* what a handler leaves of the pages: pg after its local effect, plus the
\* events it emitted; the unhandled events of a page stay within the bound
Publish(pg) ==
  /\ page' = Post(pg, emitted')
  /\ \A c \in DOMAIN page' : Len(page'[c].inbox) <= bnd.inbox

InitRoom ==
  /\ seq = 0
  /\ ops = << >>
  /\ groups = << >>
  /\ undoStack = << >>
  /\ redoStack = << >>
  /\ users = << >>
  /\ vote = [inProgress |-> FALSE, yes |-> {}, totalAtStart |-> 0]
  /\ client = << >>
  /\ nextSock = 0
  /\ nextGid = 0
  /\ emitted = << >>
  /\ last = [h |-> "init", ret |-> Null]
  /\ roster = {}
  /\ page = << >>

Init ==
  /\ InitRoom
  /\ bnd = [sockets |-> MaxSockets, ops |-> MaxOps, groups |-> MaxGroups,
            pages |-> 0, inbox |-> 0]

InitSolo ==
  /\ InitRoom
  /\ bnd = [sockets |-> SoloSockets, ops |-> SoloOps, groups |-> SoloGroups,
            pages |-> 0, inbox |-> 0]

InitVote ==
  /\ InitRoom
  /\ bnd = [sockets |-> VoteSockets, ops |-> VoteOps, groups |-> VoteGroups,
            pages |-> 0, inbox |-> 0]

InitQuorum ==
  /\ InitRoom
  /\ bnd = [sockets |-> QuorumSockets, ops |-> QuorumOps, groups |-> 0,
            pages |-> 0, inbox |-> 0]

InitClient ==
  /\ InitRoom
  /\ bnd = [sockets |-> ClientSockets, ops |-> ClientOps, groups |-> ClientGroups,
            pages |-> ClientSockets, inbox |-> ClientInbox]

InitReplay ==
  /\ InitRoom
  /\ bnd = [sockets |-> ReplaySockets, ops |-> ReplayOps, groups |-> ReplayGroups,
            pages |-> 1, inbox |-> ReplayInbox]

InitPair ==
  /\ InitRoom
  /\ bnd = [sockets |-> PairSockets, ops |-> PairOps, groups |-> PairGroups,
            pages |-> 1, inbox |-> PairInbox]

\* ---- server.js: io.on('connection') ----
Connection ==
  /\ nextSock < bnd.sockets
  /\ LET id == nextSock + 1
         user == [id |-> id, color |-> nextColor(Cardinality(Connected))]
         users1 == MapSet(users, id, user.color)
     IN /\ nextSock' = id
        /\ users' = users1
        /\ client' = MapSet(client, id, NewClient)
        /\ emitted' = << Ev("server:snapshot", id,
                            [seq |-> seq, ops |-> ops, users |-> users1]),
                         Ev("server:user_joined", Null, user) >>
        /\ last' = [h |-> "connection", ret |-> id]
  /\ Publish(IF nextSock' <= bnd.pages THEN MapSet(page, nextSock', NewPage) ELSE page)
  /\ UNCHANGED <<seq, ops, groups, undoStack, redoStack, vote, nextGid, roster, bnd>>

\* ---- server.js: socket.on('client:op'), the handler body ----
\* The pointer handlers always send a groupId, so the branch that mints one
\* for a stroke/erase message without it is never taken.
ClientOp(kind, data) ==
  LET r == addOp(Room, kind, data)
  IN /\ SetRoom(r.st)
     /\ emitted' = << Ev("server:op", Null, r.op) >>
     /\ last' = [h |-> "client:op", ret |-> r.op.seq]

\* ---- canvas.js: pointerdown, with the server's handling of the emitted start ----
\* emitFn(start), then the local preview applyOp({..., seq: -1, id: 'local'})
Down(u) ==
  /\ u \in Connected
  /\ nextGid < bnd.groups
  /\ Len(ops) < bnd.ops
  /\ LET gid == nextGid + 1
         data == [userId |-> u, groupId |-> gid, brush |-> DefaultBrush,
                  p |-> NextPoint]
     IN /\ nextGid' = gid
        /\ client' = [client EXCEPT ![u].drawing = TRUE, ![u].currentGroup = gid]
        /\ ClientOp(emitFn("stroke:start", TRUE, DefaultBrush.mode), data)
        /\ Publish(IF u \in DOMAIN page
                     THEN [page EXCEPT ![u] = applyOp(@, LocalOp("stroke:start", data))]
                     ELSE page)
  /\ UNCHANGED <<users, vote, nextSock, roster, bnd>>

\* ---- canvas.js: pointermove ----
\* the local point goes to the surface through applyOpToContext and is not
\* pushed on opLog; then emitFn(point)
Move(u) ==
  /\ u \in Connected
  /\ client[u].drawing
  /\ Len(ops) < bnd.ops
  /\ LET data == [userId |-> u, groupId |-> client[u].currentGroup,
                  p |-> NextPoint]
     IN /\ ClientOp(emitFn("stroke:point", FALSE, DefaultBrush.mode), data)
        /\ Publish(IF u \in DOMAIN page
                     THEN [page EXCEPT ![u] =
                             applyOpToContext(@, LocalOp("stroke:point", data))]
                     ELSE page)
  /\ UNCHANGED <<users, vote, client, nextSock, nextGid, roster, bnd>>

\* ---- canvas.js: pointerup / pointercancel ----
\* emitFn(end), then the local applyOp({..., seq: -1, id: 'localend'})
Up(u) ==
  /\ u \in Connected
  /\ client[u].drawing
  /\ Len(ops) < bnd.ops
  /\ client' = [client EXCEPT ![u].drawing = FALSE, ![u].currentGroup = Null]
  /\ LET data == [userId |-> u, groupId |-> client[u].currentGroup]
     IN /\ ClientOp(emitFn("stroke:end", FALSE, DefaultBrush.mode), data)
        /\ Publish(IF u \in DOMAIN page
                     THEN [page EXCEPT ![u] = applyOp(@, LocalOp("stroke:end", data))]
                     ELSE page)
  /\ UNCHANGED <<users, vote, nextSock, nextGid, roster, bnd>>

\* ---- server.js: socket.on('client:undo') ----
Undo ==
  /\ Connected # {}
  /\ LET r == performUndo(Room)
     IN /\ SetRoom(r.st)
        /\ emitted' = IF r.gid # Null
                        THEN << Ev("server:undo_group", Null, r.gid) >>
                        ELSE << >>
        /\ last' = [h |-> "client:undo", ret |-> r.gid]
  /\ Publish(page)
  /\ UNCHANGED <<users, vote, client, nextSock, nextGid, roster, bnd>>

\* ---- server.js: socket.on('client:redo') ----
Redo ==
  /\ Connected # {}
  /\ LET r == performRedo(Room)
     IN /\ SetRoom(r.st)
        /\ emitted' = IF r.gid # Null
                        THEN << Ev("server:redo_group", Null, r.gid) >>
                        ELSE << >>
        /\ last' = [h |-> "client:redo", ret |-> r.gid]
  /\ Publish(page)
  /\ UNCHANGED <<users, vote, client, nextSock, nextGid, roster, bnd>>

\* ---- main.js: socket.on('server:clear_all_vote_started') ----
\* Every connected client that has not answered a vote before (votedSet holds
\* the voteId, which the server never sends) is asked and will answer.
PromptAll(cl) ==
  [u \in DOMAIN cl |-> IF cl[u].voted THEN cl[u]
                       ELSE [cl[u] EXCEPT !.prompt = TRUE]]

\* Mutant: the quorum test is strict, so a vote that has just reached the
\* required count is left pending.
MaybeFinalize_strict(st, v) ==
  IF Cardinality(v.yes) > v.totalAtStart
    THEN LET r == finalizeClear(st)
         IN [st |-> r.st,
             vote |-> [v EXCEPT !.inProgress = FALSE],
             evs |-> << Ev("server:clear_all_applied", Null, r.sys.seq) >>]
    ELSE [st |-> st, vote |-> v, evs |-> << >>]

\* if (vote.yes.size >= vote.totalAtStart) finalizeClear();  then
\* vote.inProgress = false.  Returns the room, the vote and the events.
MaybeFinalize(st, v) ==
  IF Cardinality(v.yes) >= v.totalAtStart
    THEN LET r == finalizeClear(st)
         IN [st |-> r.st,
             vote |-> [v EXCEPT !.inProgress = FALSE],
             evs |-> << Ev("server:clear_all_applied", Null, r.sys.seq) >>]
    ELSE [st |-> st, vote |-> v, evs |-> << >>]

\* History of the pending vote: who was connected when it was requested; the
\* record is dropped when the vote is over.
RosterAfter(v, r) == IF v.inProgress THEN r ELSE {}

\* The log has room for the marker a finalizing handler appends.
RoomFor(v) == Cardinality(v.yes) >= v.totalAtStart => Len(ops) < bnd.ops

\* Mutant: the pending test is dropped, so a request during a pending vote
\* starts the vote over.
ClearAllRequest_restart(u) ==
  /\ u \in Connected
  /\ LET v1 == [inProgress |-> TRUE, yes |-> {u},
                totalAtStart |-> Cardinality(Connected)]
         f == MaybeFinalize(Room, v1)
     IN /\ RoomFor(v1)
        /\ SetRoom(f.st)
        /\ vote' = f.vote
        /\ client' = PromptAll(client)
        /\ roster' = RosterAfter(f.vote, Connected)
        /\ emitted' = << Ev("server:clear_all_vote_started", Null,
                            [total |-> v1.totalAtStart,
                             yesCount |-> Cardinality(v1.yes)]) >>
                      \o f.evs
        /\ last' = [h |-> "client:clear_all_request",
                    ret |-> IF vote.inProgress THEN Null ELSE u]
  /\ Publish(page)
  /\ UNCHANGED <<users, nextSock, nextGid, bnd>>

\* ---- server.js: socket.on('client:clear_all_request') ----
ClearAllRequest(u) ==
  /\ u \in Connected
  /\ IF vote.inProgress
       THEN /\ emitted' = << >>
            /\ last' = [h |-> "client:clear_all_request", ret |-> Null]
            /\ UNCHANGED <<seq, ops, groups, undoStack, redoStack, vote, client, roster>>
       ELSE LET v1 == [inProgress |-> TRUE, yes |-> {u},
                       totalAtStart |-> Cardinality(Connected)]
                f == MaybeFinalize(Room, v1)
            IN /\ RoomFor(v1)
               /\ SetRoom(f.st)
               /\ vote' = f.vote
               /\ client' = PromptAll(client)
               /\ roster' = RosterAfter(f.vote, Connected)
               /\ emitted' = << Ev("server:clear_all_vote_started", Null,
                                   [total |-> v1.totalAtStart,
                                    yesCount |-> Cardinality(v1.yes)]) >>
                             \o f.evs
               /\ last' = [h |-> "client:clear_all_request", ret |-> u]
  /\ Publish(page)
  /\ UNCHANGED <<users, nextSock, nextGid, bnd>>

\* ---- server.js: socket.on('client:clear_all_vote'), sent by main.js in
\* answer to the prompt ----
ClearAllVote(u, yes) ==
  /\ u \in Connected
  /\ client[u].prompt
  /\ client' = [client EXCEPT ![u].prompt = FALSE, ![u].voted = TRUE]
  /\ IF ~vote.inProgress
       THEN /\ emitted' = << >>
            /\ UNCHANGED <<seq, ops, groups, undoStack, redoStack, vote, roster>>
       ELSE LET v1 == IF yes THEN [vote EXCEPT !.yes = @ \cup {u}] ELSE vote
                f == MaybeFinalize(Room, v1)
            IN /\ RoomFor(v1)
               /\ SetRoom(f.st)
               /\ vote' = f.vote
               /\ roster' = RosterAfter(f.vote, roster)
               /\ emitted' = << Ev("server:clear_all_vote_progress", Null,
                                   [total |-> v1.totalAtStart,
                                    yesCount |-> Cardinality(v1.yes)]) >>
                             \o f.evs
  /\ last' = [h |-> "client:clear_all_vote", ret |-> u]
  /\ Publish(page)
  /\ UNCHANGED <<users, nextSock, nextGid, bnd>>

\* ---- server.js: socket.on('disconnect') ----
\* Math.max over the naturals: a - 1 is never taken below zero
Max(a, b) == IF a >= b THEN a ELSE b

\* Mutant: a departure leaves the required count as it was.
Disconnect_keepTotal(u) ==
  /\ u \in Connected
  /\ users' = MapDel(users, u)
  /\ client' = MapDel(client, u)
  /\ LET left == Ev("server:user_left", Null, u)
     IN IF vote.inProgress
          THEN LET v1 == vote
                   f == MaybeFinalize(Room, v1)
               IN /\ RoomFor(v1)
                  /\ SetRoom(f.st)
                  /\ vote' = f.vote
                  /\ roster' = RosterAfter(f.vote, roster)
                  /\ emitted' = << left,
                                   Ev("server:clear_all_vote_progress", Null,
                                      [total |-> v1.totalAtStart,
                                       yesCount |-> Cardinality(v1.yes)]) >>
                                \o f.evs
          ELSE /\ emitted' = << left >>
               /\ UNCHANGED <<seq, ops, groups, undoStack, redoStack, vote, roster>>
  /\ last' = [h |-> "disconnect", ret |-> u]
  /\ Publish(MapDel(page, u))
  /\ UNCHANGED <<nextSock, nextGid, bnd>>

Disconnect(u) ==
  /\ u \in Connected
  /\ users' = MapDel(users, u)
  /\ client' = MapDel(client, u)
  /\ LET left == Ev("server:user_left", Null, u)
     IN IF vote.inProgress
          THEN LET v1 == [vote EXCEPT !.totalAtStart =
                                         Max(@ - 1, 0)]
                   f == MaybeFinalize(Room, v1)
               IN /\ RoomFor(v1)
                  /\ SetRoom(f.st)
                  /\ vote' = f.vote
                  /\ roster' = RosterAfter(f.vote, roster)
                  /\ emitted' = << left,
                                   Ev("server:clear_all_vote_progress", Null,
                                      [total |-> v1.totalAtStart,
                                       yesCount |-> Cardinality(v1.yes)]) >>
                                \o f.evs
          ELSE /\ emitted' = << left >>
               /\ UNCHANGED <<seq, ops, groups, undoStack, redoStack, vote, roster>>
  /\ last' = [h |-> "disconnect", ret |-> u]
  /\ Publish(MapDel(page, u))
  /\ UNCHANGED <<nextSock, nextGid, bnd>>

\* ---- main.js: socket.on(...), the page handles the oldest event sent to it ----
Deliver(c) ==
  /\ c \in DOMAIN page
  /\ page[c].inbox # << >>
  /\ page' = [page EXCEPT ![c] =
                onEvent([@ EXCEPT !.inbox = Tail(@)], Head(page[c].inbox))]
  /\ emitted' = << >>
  /\ last' = [h |-> "deliver", ret |-> c]
  /\ UNCHANGED <<seq, ops, groups, undoStack, redoStack, users, vote, client,
                 nextSock, nextGid, roster, bnd>>

\* ---- canvas.js: resize (window resize) and main.js: clearLocalBtn.onclick,
\* both end in fullReplay() ----
Resize(c) ==
  /\ c \in DOMAIN page
  /\ page' = [page EXCEPT ![c] = fullReplay(@)]
  /\ emitted' = << >>
  /\ last' = [h |-> "resize", ret |-> c]
  /\ UNCHANGED <<seq, ops, groups, undoStack, redoStack, users, vote, client,
                 nextSock, nextGid, roster, bnd>>

Next ==
  \/ Connection
  \/ \E u \in SocketIds : Down(u)
  \/ \E u \in SocketIds : Move(u)
  \/ \E u \in SocketIds : Up(u)
  \/ Undo
  \/ Redo
  \/ \E u \in SocketIds : ClearAllRequest(u)
  \/ \E u \in SocketIds, yes \in BOOLEAN : ClearAllVote(u, yes)
  \/ \E u \in SocketIds : Disconnect(u)

Spec == Init /\ [][Next]_vars

SpecSolo == InitSolo /\ [][Next]_vars

SpecVote == InitVote /\ [][Next]_vars

\* The vote on its own: clients join, request, answer and leave, and nobody
\* draws, undoes or redoes.
NextQuorum ==
  \/ Connection
  \/ \E u \in SocketIds : ClearAllRequest(u)
  \/ \E u \in SocketIds, yes \in BOOLEAN : ClearAllVote(u, yes)
  \/ \E u \in SocketIds : Disconnect(u)

SpecQuorum == InitQuorum /\ [][NextQuorum]_vars

\* The room together with the pages of its clients.
NextClient ==
  \/ Connection
  \/ \E u \in SocketIds : Down(u)
  \/ \E u \in SocketIds : Move(u)
  \/ \E u \in SocketIds : Up(u)
  \/ Undo
  \/ Redo
  \/ \E u \in SocketIds : ClearAllRequest(u)
  \/ \E u \in SocketIds, yes \in BOOLEAN : ClearAllVote(u, yes)
  \/ \E u \in SocketIds : Disconnect(u)
  \/ \E c \in SocketIds : Deliver(c)
  \/ \E c \in SocketIds : Resize(c)

SpecClient == InitClient /\ [][NextClient]_vars

SpecPair == InitPair /\ [][NextClient]_vars

SpecReplay == InitReplay /\ [][NextClient]_vars

\* ======================================================================
\* Properties
\* ======================================================================

\* The last handler ran finalizeClear (it emitted server:clear_all_applied).
Finalized == \E i \in DOMAIN emitted : emitted[i].ev = "server:clear_all_applied"

\* Largest element of a set of indices, 0 when there is none.
TopIdx(S) == IF S = {} THEN 0 ELSE CHOOSE i \in S : \A j \in S : j <= i

\* Indices of the clear-all markers in the log.
MarkerIdx == {i \in DOMAIN ops : ops[i].kind = ClearKind}

Members(g) == SeqSet(groups[g].seqs)

\* C1: in every reachable server state, every group's tombstone flag equals
\* the tombstone flag of every operation whose sequence number is in the
\* group's member list.
C1_GroupTombstoneAtomic ==
  \A g \in DOMAIN groups : \A i \in DOMAIN ops :
    ops[i].seq \in Members(g) => ops[i].tombstone = groups[g].tombstone

\* C2: whenever a clear-all is finalized, every user connected at that moment
\* is in the yes-set.
C2_FinalizeUnanimous == Finalized => Connected \subseteq vote.yes

\* C3: no state has a vote pending with the yes-set at or above the required
\* count; a finalization happens only with the yes-set at or above it; and
\* while one vote stays pending the required count never increases.
C3_NoPendingAtQuorum ==
  /\ vote.inProgress => Cardinality(vote.yes) < vote.totalAtStart
  /\ Finalized => Cardinality(vote.yes) >= vote.totalAtStart

C4_SeqStrictlyIncreasing ==
  \A i, j \in DOMAIN ops : i < j => ops[i].seq < ops[j].seq

C4_Witness ==
  /\ Len(ops) >= 3
  /\ \E i, j, k \in DOMAIN ops :
       /\ i < j /\ j < k
       /\ IsStart(ops[i].kind) /\ ops[j].kind = ClearKind /\ IsPoint(ops[k].kind)

\* C5: wherever undo succeeds on a group G, a redo run right after it returns
\* G again and leaves the tombstone of every operation and of every group as
\* it was before the undo.
C5_UndoRedoRestores ==
  LET u == performUndo(Room)
  IN u.gid # Null =>
       LET r == performRedo(u.st)
       IN /\ r.gid = u.gid
          /\ r.st.ops = ops
          /\ r.st.groups = groups
          /\ u.st.groups[u.gid].tombstone
          /\ \A i \in DOMAIN ops :
               ops[i].seq \in Members(u.gid) => u.st.ops[i].tombstone

\* An undoable stroke under a non-empty redo stack.
C5_Witness ==
  LET u == performUndo(Room)
  IN /\ u.gid # Null
     /\ Len(groups[u.gid].seqs) >= 2
     /\ Len(redoStack) > 0
     /\ performRedo(u.st).gid = u.gid

\* C6: right after a clear-all finalizes, every operation logged before the
\* marker is tombstoned, every group is tombstoned, the marker is not, and
\* the vote is idle again.
C6_AfterClear ==
  Finalized =>
    /\ Len(ops) >= 1
    /\ ops[Len(ops)].kind = ClearKind
    /\ ~ops[Len(ops)].tombstone
    /\ \A i \in DOMAIN ops : i < Len(ops) => ops[i].tombstone
    /\ \A g \in DOMAIN groups : groups[g].tombstone
    /\ ~vote.inProgress

C6_Witness ==
  /\ Finalized
  /\ Len(ops) >= 3
  /\ DOMAIN groups # {}
  /\ \E i \in DOMAIN ops : IsEnd(ops[i].kind)

\* C7: once a clear-all marker is in the log, no operation before it is ever
\* untombstoned again, and an undo or redo succeeds only after a stroke that
\* was started after the latest marker has been ended.
C7_ClearIsFinal ==
  /\ \A i, j \in DOMAIN ops :
       (i < j /\ ops[j].kind = ClearKind) => ops[i].tombstone
  /\ (last.h \in {"client:undo", "client:redo"} /\ last.ret # Null
        /\ MarkerIdx # {})
       => \E s, e \in DOMAIN ops :
            /\ TopIdx(MarkerIdx) < s /\ s < e
            /\ IsStart(ops[s].kind) /\ IsEnd(ops[e].kind)
            /\ ops[s].data.groupId = ops[e].data.groupId

\* An undo that found only a stroke begun before the clear and ended after it.
C7_Witness ==
  /\ last.h = "client:undo"
  /\ last.ret = Null
  /\ MarkerIdx # {}
  /\ \E e \in DOMAIN ops : TopIdx(MarkerIdx) < e /\ IsEnd(ops[e].kind)
  /\ \A i \in DOMAIN ops : i < TopIdx(MarkerIdx) => ops[i].tombstone

\* Entries of the undo stack that undo can act on, and of the redo stack that
\* redo can act on.
ValidUndo == {i \in DOMAIN undoStack :
                undoStack[i] \in DOMAIN groups /\ ~groups[undoStack[i]].tombstone}
ValidRedo == {i \in DOMAIN redoStack :
                redoStack[i] \in DOMAIN groups /\ groups[redoStack[i]].tombstone}

\* Every operation outside group g keeps its tombstone, no op is added or
\* altered otherwise, and every other group is left as it was.
OnlyGroupFlipped(g, val) ==
  /\ Len(ops') = Len(ops)
  /\ \A i \in DOMAIN ops :
       IF ops[i].seq \in Members(g)
         THEN ops'[i] = [ops[i] EXCEPT !.tombstone = val]
         ELSE ops'[i] = ops[i]
  /\ groups' = [groups EXCEPT ![g].tombstone = val]

\* C8: an undo acts on the topmost undo-stack entry whose group exists and is
\* not tombstoned: the entries above it are discarded, the group and all its
\* members are tombstoned, its id leaves the undo stack and goes on top of the
\* redo stack, the entries below stay; with no such entry the stack ends
\* empty and undo returns nothing.
C8_UndoStep ==
  last'.h = "client:undo" =>
    LET k == TopIdx(ValidUndo)
    IN IF k = 0
         THEN undoStack' = << >> /\ last'.ret = Null
         ELSE LET g == undoStack[k]
              IN /\ last'.ret = g
                 /\ undoStack' = SubSeq(undoStack, 1, k - 1)
                 /\ redoStack' = Append(redoStack, g)
                 /\ OnlyGroupFlipped(g, TRUE)

C8_UndoTopmostValid == [][C8_UndoStep]_vars

\* An undo that went past a stroke tombstoned by a clear-all (begun before
\* the clear, ended after the undone stroke) and tombstoned the stroke below.
C8_Witness ==
  /\ last.h = "client:undo"
  /\ last.ret # Null
  /\ groups[last.ret].tombstone
  /\ redoStack = << last.ret >>
  /\ undoStack = << >>
  /\ \E s, e, f \in DOMAIN ops :
       /\ TopIdx(MarkerIdx) < s /\ s < e /\ e < f
       /\ IsStart(ops[s].kind) /\ ops[s].data.groupId = last.ret
       /\ IsEnd(ops[e].kind) /\ ops[e].data.groupId = last.ret
       /\ IsEnd(ops[f].kind) /\ ops[f].data.groupId # last.ret
       /\ groups[ops[f].data.groupId].tombstone

\* C9: a redo pops the redo stack from the top, discarding entries whose
\* group is missing or not tombstoned; the first entry whose group exists and
\* is tombstoned is untombstoned with all its members and pushed on top of the
\* undo stack; with no such entry the redo stack ends empty and nothing is
\* untombstoned.
C9_RedoStep ==
  last'.h = "client:redo" =>
    LET k == TopIdx(ValidRedo)
    IN IF k = 0
         THEN /\ redoStack' = << >>
              /\ last'.ret = Null
              /\ ops' = ops
              /\ groups' = groups
         ELSE LET g == redoStack[k]
              IN /\ last'.ret = g
                 /\ redoStack' = SubSeq(redoStack, 1, k - 1)
                 /\ undoStack' = Append(undoStack, g)
                 /\ OnlyGroupFlipped(g, FALSE)

C9_RedoSymmetric == [][C9_RedoStep]_vars

\* A redo that restored a stroke and left another undone stroke on the redo
\* stack.
C9_Witness ==
  /\ last.h = "client:redo"
  /\ last.ret # Null
  /\ ~groups[last.ret].tombstone
  /\ Len(undoStack) >= 1 /\ undoStack[Len(undoStack)] = last.ret
  /\ Len(redoStack) >= 1
  /\ \A i \in DOMAIN ops : ops[i].seq \in Members(last.ret) => ~ops[i].tombstone

\* C10: an undo with no undoable entry on the undo stack, and a redo with no
\* redoable entry on the redo stack, emits nothing and changes neither the
\* log, nor any tombstone, nor the other stack.
C10_NoopStep ==
  /\ (last'.h = "client:undo" /\ ValidUndo = {}) =>
       /\ emitted' = << >>
       /\ ops' = ops /\ groups' = groups /\ seq' = seq
       /\ redoStack' = redoStack
  /\ (last'.h = "client:redo" /\ ValidRedo = {}) =>
       /\ emitted' = << >>
       /\ ops' = ops /\ groups' = groups /\ seq' = seq
       /\ undoStack' = undoStack

C10_SilentNoop == [][C10_NoopStep]_vars

\* An undo whose stack held only a stroke tombstoned by a clear-all: begun
\* before the marker, continued and ended after it.
C10_Witness ==
  /\ last.h = "client:undo"
  /\ last.ret = Null
  /\ emitted = << >>
  /\ undoStack = << >>
  /\ redoStack = << >>
  /\ \E g \in DOMAIN groups :
       /\ groups[g].tombstone
       /\ Len(groups[g].seqs) >= 3
       /\ \E s, e \in DOMAIN ops :
            /\ s < TopIdx(MarkerIdx) /\ TopIdx(MarkerIdx) < e
            /\ IsStart(ops[s].kind) /\ ops[s].data.groupId = g
            /\ IsEnd(ops[e].kind) /\ ops[e].data.groupId = g
            /\ e = Len(ops)

\* C17: a clear-all request that arrives while a vote is pending is ignored:
\* the yes-set, the required count, the pending flag, the log, the groups and
\* both stacks are what they were, and the handler emits nothing.
C17_PendingRequestStep ==
  (vote.inProgress /\ last'.h = "client:clear_all_request")
    => /\ vote' = vote
       /\ ops' = ops
       /\ groups' = groups
       /\ undoStack' = undoStack
       /\ redoStack' = redoStack
       /\ emitted' = << >>

C17_PendingRequestIgnored == [][C17_PendingRequestStep]_vars

\* a request was just ignored while a vote was pending in which a user had
\* answered no
C17_Witness ==
  /\ last.h = "client:clear_all_request"
  /\ last.ret = Null
  /\ vote.inProgress
  /\ \E u \in Connected : u \notin vote.yes /\ client[u].voted

\* the newest entry of the log
LastOp == ops[Len(ops)]

\* C18: right after a stroke-end or erase-end operation is appended, its
\* sequence number is the last member of its group, its group id is on top of
\* the undo stack, and the redo stack is empty.
C18_EndFinishesGroup ==
  (last.h = "client:op" /\ IsEnd(LastOp.kind))
    => LET g == LastOp.data.groupId
       IN /\ g \in DOMAIN groups
          /\ groups[g].seqs[Len(groups[g].seqs)] = LastOp.seq
          /\ undoStack # << >>
          /\ undoStack[Len(undoStack)] = g
          /\ redoStack = << >>

\* an end was just appended after an earlier group had been undone and never
\* redone: the redo stack held that group when the end arrived
C18_Witness ==
  /\ last.h = "client:op"
  /\ IsEnd(LastOp.kind)
  /\ MarkerIdx = {}
  /\ \E g \in DOMAIN groups : groups[g].tombstone

\* the groups whose start has not been followed by an end
InProgress ==
  {g \in DOMAIN groups :
     ~ \E i \in DOMAIN ops : IsEnd(ops[i].kind) /\ ops[i].data.groupId = g}

\* C19: a stroke in progress (started, not yet ended) is not referenced by
\* the undo stack, and no undo tombstones it.
C19_InProgressNotUndoable ==
  \A g \in InProgress :
    /\ \A i \in DOMAIN undoStack : undoStack[i] # g
    /\ last.h = "client:undo" => last.ret # g

\* an undo has just tombstoned a finished group while another stroke was in
\* progress and visible
C19_Witness ==
  /\ last.h = "client:undo"
  /\ last.ret # Null
  /\ \E g \in InProgress : ~groups[g].tombstone

\* C16: a pending vote cannot be blocked by a user who leaves: once every
\* user who was connected when the vote was requested has voted yes or has
\* disconnected, the vote is no longer pending (the clear has finalized).
\* While it is pending, somebody on its roster is still connected and has
\* not voted yes.
C16_DepartureCannotBlock ==
  vote.inProgress => \E u \in roster : u \in Connected /\ u \notin vote.yes

\* three users, the first requested, the second disconnected, and the yes of
\* the third has just finalized the clear
C16_Witness ==
  /\ last.h = "client:clear_all_vote"
  /\ Finalized
  /\ Cardinality(vote.yes) = 2
  /\ vote.totalAtStart = 2
  /\ Cardinality(Connected) = 2
  /\ vote.yes = Connected
  /\ nextSock = 3

\* C11: on every page, at every instant, the surface drawn so far by the
\* incremental path (local previews included) is the surface a full replay of
\* the page's log would draw: the same segments in the same order with the
\* same endpoints, colour, width and mode.
C11_IncrementalEqualsReplay ==
  \A c \in DOMAIN page : page[c].octx = fullReplay(page[c]).octx

\* the ops of a page's log that carry a server sequence number
Sequenced(log) == SelectSeq(log, LAMBDA o : o.seq # -1)

\* C12: what a full replay renders depends only on the server-sequenced
\* operations (and their tombstones) the page has received: replaying the
\* page's log gives the surface that replaying its server-sequenced
\* operations alone gives, so a local preview never counts as canonical.
C12_ReplayOnlySequenced ==
  \A c \in DOMAIN page :
    fullReplay(page[c]).octx =
      fullReplay([page[c] EXCEPT !.opLog = Sequenced(@)]).octx

\* the ops of a log that a replay applies
Live(log) == SelectSeq(log, LAMBDA o : ~o.tombstone)

\* the user whose point ends segment sg, by the log
DrawnBy(log, sg) ==
  {log[i].data.userId : i \in {j \in DOMAIN log :
      IsPoint(log[j].kind) /\ log[j].data.p = sg.p1}}

\* segment sg is stroked with the brush some replayed start of user u carries
BrushFromStart(log, sg, u) ==
  \E i \in DOMAIN log :
    /\ IsStart(log[i].kind)
    /\ log[i].data.userId = u
    /\ sg.color = log[i].data.brush.color
    /\ sg.width = log[i].data.brush.width
    /\ sg.mode = (IF IsErase(log[i].kind) THEN "eraser" ELSE "brush")

\* a replayed start of user u comes before the point that ends sg, with no
\* end of u in between: the point has a tracked start
HasTrackedStart(log, sg, u) ==
  \E j \in DOMAIN log :
    /\ IsPoint(log[j].kind) /\ log[j].data.p = sg.p1 /\ log[j].data.userId = u
    /\ \E i \in 1..(j - 1) :
         /\ IsStart(log[i].kind) /\ log[i].data.userId = u
         /\ \A k \in (i + 1)..(j - 1) :
              ~(IsEnd(log[k].kind) /\ log[k].data.userId = u)

\* C13: a replay never guesses: every segment it draws ends at a point whose
\* user has a tracked start, and is stroked with the brush captured from a
\* start of that user.  A point with no tracked start draws nothing and does
\* not let a later point be drawn from it with a made-up brush.
C13_NoGuessedSegments ==
  \A c \in DOMAIN page :
    LET log == Live(page[c].opLog)
        drawn == fullReplay(page[c]).octx
    IN \A n \in DOMAIN drawn : \A u \in DrawnBy(log, drawn[n]) :
         /\ HasTrackedStart(log, drawn[n], u)
         /\ BrushFromStart(log, drawn[n], u)

\* the users with an op in the log
UsersOf(log) == {log[i].data.userId : i \in DOMAIN log} \ {Null}

\* segment sg joins two consecutive points of one stroke: the log holds, for
\* one user and one group, the op that carries sg.p0 and after it the point
\* that carries sg.p1, with no other point of that group in between, and sg
\* is stroked with the brush the start of that group carries
JoinsOwnStroke(log, sg) ==
  \E i, j \in DOMAIN log :
    /\ i < j
    /\ IsStart(log[i].kind) \/ IsPoint(log[i].kind)
    /\ IsPoint(log[j].kind)
    /\ log[i].data.p = sg.p0
    /\ log[j].data.p = sg.p1
    /\ log[i].data.userId = log[j].data.userId
    /\ log[i].data.groupId = log[j].data.groupId
    /\ \A k \in (i + 1)..(j - 1) :
         ~(IsPoint(log[k].kind) /\ log[k].data.groupId = log[j].data.groupId)
    /\ \E b \in DOMAIN log :
         /\ IsStart(log[b].kind)
         /\ log[b].data.groupId = log[j].data.groupId
         /\ log[b].data.userId = log[j].data.userId
         /\ sg.color = log[b].data.brush.color
         /\ sg.width = log[b].data.brush.width
         /\ sg.mode = (IF IsErase(log[b].kind) THEN "eraser" ELSE "brush")

\* C14: when the log interleaves the operations of two or more users, every
\* segment a replay draws joins two consecutive points of one user's stroke
\* (never one user's last point to another user's next point), stroked with
\* the brush that user's start captured.
C14_SegmentsWithinStroke ==
  \A c \in DOMAIN page :
    LET log == Live(page[c].opLog)
        drawn == fullReplay(page[c]).octx
    IN Cardinality(UsersOf(log)) >= 2
         => \A n \in DOMAIN drawn : JoinsOwnStroke(log, drawn[n])

\* C15: a full replay is idempotent: run a second time on the same log with
\* no event in between, it leaves the rendered surface and the per-user
\* in-flight state (lastSeg, currBrush) exactly as the first run left them.
C15_SecondReplayStep ==
  \A c \in DOMAIN page :
    (last.h = "resize" /\ last.ret = c /\ last'.h = "resize" /\ last'.ret = c)
      => page'[c] = page[c]

C15_ReplayIdempotent == [][C15_SecondReplayStep]_vars

\* a page has just replayed a log that draws a segment and leaves a stroke
\* in flight
C15_Witness ==
  /\ last.h = "resize"
  /\ last.ret \in DOMAIN page
  /\ page[last.ret].octx # << >>
  /\ page[last.ret].lastSeg # << >>
  /\ page[last.ret].currBrush # << >>

\* C20: a connected client that has handled its snapshot and every event the
\* server sent it holds, for each server-sequenced operation of its mirrored
\* log, the tombstone flag the server log holds for that operation, whenever
\* it joined.
C20_MirrorMatchesServer ==
  \A c \in DOMAIN page :
    page[c].inbox = << >>
      => \A n \in DOMAIN page[c].opLog :
           LET o == page[c].opLog[n]
           IN o.seq # -1
                => \E i \in DOMAIN ops :
                     ops[i].seq = o.seq /\ ops[i].tombstone = o.tombstone

\* the place of user u in the room's join order, counted from 0: socket ids
\* are handed out in the order of connection
JoinIndex(u) == u - 1

\* C21: a user's colour is fixed by join order: the n-th user to connect
\* over the room's lifetime (n from 0, whatever disconnects came before)
\* holds palette entry n modulo the palette size.
C21_ColourByJoinOrder ==
  \A u \in Connected : users[u] = JoinIndex(u) % NumColors

====
